---- MODULE Spec2Model ----
(***************************************************************************)
(* Model of the music catalog publisher, pushMusic (src/unnamed/part_000), *)
(* and of the remote repository service it drives.                         *)
(*                                                                         *)
(* A string that the code takes apart (a url, a repository path) is a      *)
(* record [pre, stem, ext] standing for the concatenation pre stem ext,    *)
(* split after the directory prefix and before the final dot, so that two  *)
(* strings are equal exactly when their records are.                       *)
(***************************************************************************)
EXTENDS Integers, Sequences, FiniteSets, TLC

VARIABLES
    ref,      \* remote: the commit the branch heads/<BRANCH> points at
    commits,  \* remote: the commits created so far; a commit sha is its index
    trees,    \* remote: the trees created so far (a tree sha is the tree)
    blobs,    \* remote: the blobs created so far (a blob sha is its content)
    run,      \* per pushMusic call: its parameters, locals and position
    sync      \* the music dialog: its state, the local storage and handleSyncToGitHub

vars == <<ref, commits, trees, blobs, run, sync>>

----------------------------------------------------------------------------
(* Bounds *)

\* longest musicList passed to pushMusic
MaxTracks == 2

Runners == {1, 2}

----------------------------------------------------------------------------
(* Strings *)

Str(pre, stem, ext) == [pre |-> pre, stem |-> stem, ext |-> ext]

\* String.prototype.startsWith('/music/')
StartsWithMusic(url) == url.pre = "/music/"

\* url.replace('/music/', ''): the first occurrence is removed
ReplaceMusic(url) ==
    IF url.pre = "/music/" THEN Str("", url.stem, url.ext)
    ELSE IF url.pre = "https://cdn/music/" THEN Str("https://cdn", url.stem, url.ext)
    ELSE url

\* `public/music/${filename}`
StoragePath(filename) == Str("public/music/" \o filename.pre, filename.stem, filename.ext)

ManifestPath == Str("src/app/music/", "list", ".json")

\* String.prototype.toLowerCase on a filename suffix
ToLowerCase(s) ==
    CASE s = ".MP3" -> ".mp3"
      [] s = ".WAV" -> ".wav"
      [] OTHER -> s

RecognisedExts ==
    <<".jpg", ".jpeg", ".webp", ".png", ".svg", ".mp3", ".m4a", ".wav", ".ogg", ".flac", ".aac">>

RECURSIVE FirstEndsWith(_, _)
FirstEndsWith(lower, i) ==
    IF i > Len(RecognisedExts) THEN ".png"
    ELSE IF lower = RecognisedExts[i] THEN RecognisedExts[i]
    ELSE FirstEndsWith(lower, i + 1)

\* getFileExt: the first recognised extension the lower-cased name ends with,
\* '.png' when there is none. filename is [base, suffix].
getFileExt(filename) == FirstEndsWith(ToLowerCase(filename.suffix), 1)

----------------------------------------------------------------------------
(* Contents, blobs and JSON *)

Content(form, bytes, items) == [form |-> form, bytes |-> bytes, items |-> items]

Audio(bytes) == Content("audio", bytes, <<>>)

\* a tree item's sha: null
NullSha == Content("null", "", <<>>)

\* hashFileSHA256: the hex digest of the file's bytes
hashFileSHA256(file) ==
    CASE file.content = "c1" -> "h1"
      [] file.content = "c2" -> "h2"
      [] OTHER -> "h0"

\* JSON.stringify(list, null, '\t'): one {name, url} object per element, in order
JSONstringify(list) ==
    Content("json", "", [i \in 1..Len(list) |-> <<"name", list[i].name, "url", list[i].url>>])

JSONparses(text) == text.form = "json"

\* JSON.parse of a text that parses
JSONparse(text) ==
    [i \in 1..Len(text.items) |-> [name |-> text.items[i][2], url |-> text.items[i][4]]]

\* toBase64Utf8 / fileToBase64NoPrefix
toBase64(content) == [b64 |-> content]

\* the remote's decoding of a blob sent with encoding 'base64'
fromBase64(encoded) == encoded.b64

----------------------------------------------------------------------------
(* Inputs *)

Track(name, url) == [name |-> name, url |-> url]

OldUrl == Str("/music/", "old", ".mp3")
GoneUrl == Str("/music/", "gone", ".wav")
ExternalUrl == Str("https://cdn/music/", "ext", ".mp3")
H1Mp3Url == Str("/music/", "h1", ".mp3")
Key1 == Str("temp-", "1-h1", "")
Key2 == Str("temp-", "2-h1", "")

\* the transient keys a caller correlates tracks and pending uploads with
TransientKeys == {Key1, Key2}

\* the tracks a desired list is made of
Tracks ==
    { Track("A", OldUrl), Track("B", ExternalUrl), Track("A", Key1),
      Track("B", Key2), Track("C", H1Mp3Url) }

SeqsUpTo(S, n) == UNION { [1..k -> S] : k \in 0..n }

MusicLists == SeqsUpTo(Tracks, MaxTracks)

File(base, suffix, content) ==
    [name |-> [base |-> base, suffix |-> suffix], content |-> content]

\* a MusicFileItem without a file
NoFile == File("", "", "")

MusicFileItem(file, hash) == [file |-> file, hash |-> hash]

\* the pending uploads: hash is '' when the caller supplied none
MusicFileItems ==
    { MusicFileItem(File("a", ".mp3", "c1"), ""),
      MusicFileItem(File("b", ".MP3", "c1"), "h1"),
      MusicFileItem(File("a", ".wav", "c1"), ""),
      MusicFileItem(File("c", "", "c2"), ""),
      MusicFileItem(NoFile, "") }

\* Map<string, MusicFileItem> in iteration (insertion) order: distinct keys.
\* The empty sequence stands for an absent or an empty map.
MusicFileItemMaps ==
    { m \in SeqsUpTo([url : TransientKeys, item : MusicFileItems], Cardinality(TransientKeys)) :
        \A i, j \in 1..Len(m) : i /= j => m[i].url /= m[j].url }

PushMusicParams == [musicList : MusicLists, musicFileItems : MusicFileItemMaps]

\* the parameters a caller passes that gives every pending upload a track whose
\* url is the upload's key (handleSyncToGitHub pushes one per upload)
CallerParams ==
    { p \in PushMusicParams :
        \A i \in 1..Len(p.musicFileItems) :
            \E k \in 1..Len(p.musicList) : p.musicList[k].url = p.musicFileItems[i].url }

\* the parameters of the runs that race for the branch
RaceParams ==
    [ musicList : { <<>>, <<Track("A", Key1)>>, <<Track("A", OldUrl)>> },
      musicFileItems : { <<>>, <<[url |-> Key1, item |-> MusicFileItem(File("a", ".mp3", "c1"), "")]>> } ]

----------------------------------------------------------------------------
(* The remote repository service *)

NotFound == Content("notFound", "", <<>>)
EmptyText == Content("text", "", <<>>)
GarbageText == Content("text", "not json", <<>>)

\* the manifests the branch can hold before a publish
InitialManifests ==
    { NotFound, EmptyText, GarbageText,
      JSONstringify(<<>>),
      JSONstringify(<<Track("A", OldUrl)>>),
      JSONstringify(<<Track("A", OldUrl), Track("B", ExternalUrl)>>),
      JSONstringify(<<Track("C", H1Mp3Url), Track("D", GoneUrl)>>) }

TreeFile(path, sha) == [path |-> path, sha |-> sha]

\* the audio files the branch holds for a manifest: one per owned url
AudioFilesOf(manifest) ==
    IF JSONparses(manifest)
    THEN { TreeFile(StoragePath(ReplaceMusic(JSONparse(manifest)[i].url)),
                    Audio(IF JSONparse(manifest)[i].url = H1Mp3Url THEN "c1" ELSE "c0")) :
             i \in { j \in 1..Len(manifest.items) : StartsWithMusic(JSONparse(manifest)[j].url) } }
    ELSE {}

ReadmeFile == TreeFile(Str("", "README", ".md"), Content("text", "readme", <<>>))

InitialTree(manifest) ==
    {ReadmeFile} \cup AudioFilesOf(manifest)
      \cup (IF manifest = NotFound THEN {} ELSE {TreeFile(ManifestPath, manifest)})

\* the tree of a commit
TreeOf(sha) == IF sha \in 1..Len(commits) THEN commits[sha].tree ELSE {}

\* readTextFileFromRepo(path, BRANCH): the file's text at the branch tip, or null
readTextFileFromRepo(path) ==
    IF \E f \in TreeOf(ref) : f.path = path
    THEN (CHOOSE f \in TreeOf(ref) : f.path = path).sha
    ELSE NotFound

\* the trees createTree(base_tree, tree) can answer with: a path of the request
\* takes the sha of an entry that names it (null removes it), the other paths
\* are the base tree's
TreesFrom(base, entries) ==
    LET named == { entries[i].path : i \in 1..Len(entries) }
        shasOf(p) == { entries[i].sha : i \in { j \in 1..Len(entries) : entries[j].path = p } }
        picks == { f \in [named -> { entries[i].sha : i \in 1..Len(entries) }] :
                     \A p \in named : f[p] \in shasOf(p) }
    IN  { { f \in base : f.path \notin named }
            \cup { TreeFile(p, pick[p]) : p \in { q \in named : pick[q] /= NullSha } } :
          pick \in picks }

RECURSIVE IsAncestor(_, _)
\* commit a is b or one of b's ancestors
IsAncestor(a, b) ==
    IF b = 0 THEN FALSE
    ELSE IF a = b THEN TRUE
    ELSE \E p \in { commits[b].parents[i] : i \in 1..Len(commits[b].parents) } : IsAncestor(a, p)

\* updateRef without force: the remote takes fast-forward updates only
FastForward(sha) == IsAncestor(ref, sha)

----------------------------------------------------------------------------
(* pushMusic *)

Toast(what) == [kind |-> "toast", what |-> what, ok |-> TRUE]
Call(what, ok) == [kind |-> "call", what |-> what, ok |-> ok]

NoError == [name |-> "", step |-> ""]
Error(name, step) == [name |-> name, step |-> step]

\* a TreeItem: { path, mode: '100644', type: 'blob', sha }
TreeItem(path, sha) == [path |-> path, mode |-> "100644", type |-> "blob", sha |-> sha]

IdleRun ==
    [ pc |-> "idle",
      musicList |-> <<>>,
      musicFileItems |-> <<>>,
      latestCommitSha |-> 0,
      treeItems |-> <<>>,
      uploadedHashes |-> {},
      updatedMusicList |-> <<>>,
      i |-> 1,
      previousListJson |-> NotFound,
      sentTree |-> [base |-> 0, tree |-> <<>>],
      treeData |-> {},
      sentCommit |-> [tree |-> {}, parents |-> <<>>],
      commitData |-> 0,
      sentRef |-> 0,
      error |-> NoError,
      log |-> <<>> ]

\* `/music/${hash}${ext}`
publicPath(hash, ext) == Str("/music/", hash, ext)

\* `${hash}${ext}`
filename(hash, ext) == Str("", hash, ext)

\* musicFileItem.hash || (await hashFileSHA256(musicFileItem.file))
hashOf(musicFileItem) ==
    IF musicFileItem.hash /= "" THEN musicFileItem.hash ELSE hashFileSHA256(musicFileItem.file)

\* !uploadedHashes.has(hash)
needsUpload(uploadedHashes, hash) == hash \notin uploadedHashes

\* updatedMusicList.map(m => (m.url === url ? { ...m, url: publicPath } : m))
remap(list, url, to) ==
    [k \in 1..Len(list) |-> IF list[k].url = url THEN [list[k] EXCEPT !.url = to] ELSE list[k]]

ownedUrlsAnyPrefix(list) == { list[k].url : k \in 1..Len(list) }

\* the urls of a list that start with '/music/' (previousUrls, currentUrls)
ownedUrls(list) == { list[k].url : k \in { j \in 1..Len(list) : StartsWithMusic(list[j].url) } }

\* a Set is iterated in insertion order: previousUrls in the manifest's order
RECURSIVE InOrder(_, _)
InOrder(list, S) ==
    IF list = <<>> THEN <<>>
    ELSE IF Head(list).url \in S
         THEN <<Head(list).url>> \o InOrder(Tail(list), S \ {Head(list).url})
         ELSE InOrder(Tail(list), S)

staleUrlsAll(previousMusicList, updatedMusicList) ==
    InOrder(previousMusicList, ownedUrls(previousMusicList))

\* the previous manifest's owned urls the updated list no longer has, in order
staleUrls(previousMusicList, updatedMusicList) ==
    InOrder(previousMusicList, ownedUrls(previousMusicList) \ ownedUrls(updatedMusicList))

\* the delete items pushed for the stale urls
deleteItems(previousMusicList, updatedMusicList) ==
    LET stale == staleUrls(previousMusicList, updatedMusicList)
    IN  [k \in 1..Len(stale) |-> TreeItem(StoragePath(ReplaceMusic(stale[k])), NullSha)]

\* the stale-file scan ends normally with the items it pushed, or throws
Scanned(items) == [threw |-> FALSE, items |-> items]
Threw == [threw |-> TRUE, items |-> <<>>]

scanUncaught(previousListJson, updatedMusicList) ==
    IF previousListJson = NotFound \/ previousListJson = EmptyText THEN Scanned(<<>>)
    ELSE IF ~JSONparses(previousListJson) THEN Threw
    ELSE Scanned(deleteItems(JSONparse(previousListJson), updatedMusicList))

\* lines 79-114: if (previousListJson) { try { JSON.parse ... } catch { console.error } }
scan(previousListJson, updatedMusicList) ==
    IF previousListJson = NotFound \/ previousListJson = EmptyText THEN Scanned(<<>>)
    ELSE IF ~JSONparses(previousListJson) THEN Scanned(<<>>)
    ELSE Scanned(deleteItems(JSONparse(previousListJson), updatedMusicList))

musicJsonOwnedOnly(updatedMusicList) ==
    JSONstringify(SelectSeq(updatedMusicList, LAMBDA m : StartsWithMusic(m.url)))

\* line 117: JSON.stringify(updatedMusicList, null, '\t')
musicJson(updatedMusicList) == JSONstringify(updatedMusicList)

treeBaseNone(latestCommitSha) == 0

\* line 128: the base_tree of the tree request
treeBase(latestCommitSha) == latestCommitSha

Set(r, f) == run' = [run EXCEPT ![r] = f] /\ UNCHANGED sync

thrownSwallowed(me, name, step) ==
    [me EXCEPT !.pc = "done", !.log = @ \o <<Call(step, FALSE), Toast("completion")>>]

thrownRetried(me, name, step) ==
    [me EXCEPT !.log = Append(@, Call(step, FALSE))]

thrownRetriedOnce(me, name, step) ==
    IF \E k \in 1..Len(me.log) : me.log[k].kind = "call" /\ ~me.log[k].ok
    THEN [me EXCEPT !.pc = "failed", !.error = Error(name, step),
                    !.log = Append(@, Call(step, FALSE))]
    ELSE [me EXCEPT !.log = Append(@, Call(step, FALSE))]

\* an awaited call throws: pushMusic has no try around it, so the error leaves
\* the function and nothing after the await runs
thrown(me, name, step) ==
    [me EXCEPT !.pc = "failed", !.error = Error(name, step),
               !.log = Append(@, Call(step, FALSE))]

Fail(r, name, step) ==
    /\ Set(r, thrown(run[r], name, step))
    /\ UNCHANGED <<ref, commits, trees, blobs>>

AfterUploadsSilent(log) == log

\* the log once the loop over musicFileItems is over: the stale-file toast
AfterUploads(log) == Append(log, Toast("stale-file scan"))

\* pushMusic(params) is called
Begin(r, params) ==
    /\ run[r].pc = "idle"
    /\ \E p \in params :
         Set(r, [IdleRun EXCEPT !.pc = "getAuthToken",
                                !.musicList = p.musicList,
                                !.musicFileItems = p.musicFileItems])
    /\ UNCHANGED <<ref, commits, trees, blobs>>

\* line 26: const token = await getAuthToken(); then line 28 and the getRef request
GetAuthToken(r) ==
    /\ run[r].pc = "getAuthToken"
    /\ \/ Set(r, [run[r] EXCEPT !.pc = "getRef",
                                !.log = @ \o <<Call("getAuthToken", TRUE), Toast("ref fetch")>>])
       \/ Set(r, thrown(run[r], "Unauthenticated", "getAuthToken"))
    /\ UNCHANGED <<ref, commits, trees, blobs>>

\* lines 29-42: getRef answers; the locals are set up
GetRef(r) ==
    /\ run[r].pc = "getRef"
    /\ \/ /\ Set(r, [run[r] EXCEPT
                 !.latestCommitSha = ref,
                 !.treeItems = <<>>,
                 !.uploadedHashes = {},
                 !.updatedMusicList = run[r].musicList,
                 !.i = 1,
                 !.pc = IF Len(run[r].musicFileItems) > 0 THEN "upload" ELSE "readPrevious",
                 !.log = IF Len(run[r].musicFileItems) > 0
                         THEN @ \o <<Call("getRef", TRUE), Toast("file prep"), Toast("upload")>>
                         ELSE AfterUploads(@ \o <<Call("getRef", TRUE), Toast("file prep")>>)])
          /\ UNCHANGED <<ref, commits, trees, blobs>>
       \/ Fail(r, "RefNotFound", "getRef")

\* lines 43-66: one turn of the loop over musicFileItems.entries()
UploadItem(r) ==
    LET me == run[r]
        entry == me.musicFileItems[me.i]
        musicFileItem == entry.item
        hash == hashOf(musicFileItem)
        ext == getFileExt(musicFileItem.file.name)
        last == me.i = Len(me.musicFileItems)
        next == IF last THEN "readPrevious" ELSE "upload"
        end(log) == IF last THEN AfterUploads(log) ELSE log
    IN
    /\ me.pc = "upload"
    /\ IF musicFileItem.file = NoFile
       THEN /\ Set(r, [me EXCEPT !.i = @ + 1, !.pc = next, !.log = end(@)])
            /\ UNCHANGED <<ref, commits, trees, blobs>>
       ELSE IF needsUpload(me.uploadedHashes, hash)
       THEN \/ /\ blobs' = blobs \cup {fromBase64(toBase64(Audio(musicFileItem.file.content)))}
               /\ Set(r, [me EXCEPT
                      !.treeItems = Append(@, TreeItem(StoragePath(filename(hash, ext)),
                                                       fromBase64(toBase64(Audio(musicFileItem.file.content))))),
                      !.uploadedHashes = @ \cup {hash},
                      !.updatedMusicList = remap(@, entry.url, publicPath(hash, ext)),
                      !.i = @ + 1,
                      !.pc = next,
                      !.log = end(Append(@, Call("createBlob", TRUE)))])
               /\ UNCHANGED <<ref, commits, trees>>
            \/ Fail(r, "RemoteWriteFailed", "createBlob")
       ELSE /\ Set(r, [me EXCEPT
                   !.updatedMusicList = remap(@, entry.url, publicPath(hash, ext)),
                   !.i = @ + 1,
                   !.pc = next,
                   !.log = end(@)])
            /\ UNCHANGED <<ref, commits, trees, blobs>>

\* lines 71-117: the previous list.json is read at the branch tip, the delete
\* items are pushed and the updated list is serialised
ReadPrevious(r) ==
    LET me == run[r]
        previousListJson == readTextFileFromRepo(ManifestPath)
        scanned == scan(previousListJson, me.updatedMusicList)
    IN
    /\ me.pc = "readPrevious"
    /\ IF scanned.threw
       THEN Set(r, thrown([me EXCEPT !.previousListJson = previousListJson,
                                     !.log = Append(@, Call("readTextFileFromRepo", TRUE))],
                          "SyntaxError", "JSON.parse"))
       ELSE Set(r, [me EXCEPT
                !.previousListJson = previousListJson,
                !.treeItems = @ \o scanned.items,
                !.pc = "createManifestBlob",
                !.log = Append(@, Call("readTextFileFromRepo", TRUE))])
    /\ UNCHANGED <<ref, commits, trees, blobs>>

\* lines 117-127: the manifest blob
CreateManifestBlob(r) ==
    LET me == run[r]
        json == musicJson(me.updatedMusicList)
    IN
    /\ me.pc = "createManifestBlob"
    /\ \/ /\ blobs' = blobs \cup {fromBase64(toBase64(json))}
          /\ Set(r, [me EXCEPT
                 !.treeItems = Append(@, TreeItem(ManifestPath, fromBase64(toBase64(json)))),
                 !.pc = "createTree",
                 !.log = @ \o <<Call("createBlob", TRUE), Toast("tree creation")>>])
          /\ UNCHANGED <<ref, commits, trees>>
       \/ Fail(r, "RemoteWriteFailed", "createBlob")

\* line 128: createTree(treeItems, latestCommitSha); then line 131
CreateTree(r) ==
    LET me == run[r] IN
    /\ me.pc = "createTree"
    /\ \/ \E tree \in TreesFrom(TreeOf(treeBase(me.latestCommitSha)), me.treeItems) :
            /\ trees' = trees \cup {tree}
            /\ Set(r, [me EXCEPT
                   !.sentTree = [base |-> treeBase(me.latestCommitSha), tree |-> me.treeItems],
                   !.treeData = tree,
                   !.pc = "createCommit",
                   !.log = @ \o <<Call("createTree", TRUE), Toast("commit creation")>>])
            /\ UNCHANGED <<ref, commits, blobs>>
       \/ Fail(r, "RemoteWriteFailed", "createTree")

commitParentsTip(latestCommitSha) == <<ref>>

\* [latestCommitSha]
commitParents(latestCommitSha) == <<latestCommitSha>>

\* line 132: createCommit(commitMessage, treeData.sha, [latestCommitSha]); then line 135
CreateCommit(r) ==
    LET me == run[r]
        commit == [tree |-> me.treeData, parents |-> commitParents(me.latestCommitSha)]
    IN
    /\ me.pc = "createCommit"
    /\ \/ /\ commits' = Append(commits, commit)
          /\ Set(r, [me EXCEPT
                 !.sentCommit = commit,
                 !.commitData = Len(commits) + 1,
                 !.pc = "updateRef",
                 !.log = @ \o <<Call("createCommit", TRUE), Toast("ref update")>>])
          /\ UNCHANGED <<ref, trees, blobs>>
       \/ Fail(r, "RemoteWriteFailed", "createCommit")

\* line 136: updateRef(`heads/${BRANCH}`, commitData.sha); then line 138
UpdateRef(r) ==
    LET me == run[r] IN
    /\ me.pc = "updateRef"
    /\ \/ /\ FastForward(me.commitData)
          /\ ref' = me.commitData
          /\ Set(r, [me EXCEPT
                 !.sentRef = me.commitData,
                 !.pc = "done",
                 !.log = @ \o <<Call("updateRef", TRUE), Toast("completion")>>])
          /\ UNCHANGED <<commits, trees, blobs>>
       \/ /\ Set(r, thrown([me EXCEPT !.sentRef = me.commitData], "RefUpdateConflict", "updateRef"))
          /\ UNCHANGED <<ref, commits, trees, blobs>>

-----------------------------------------------------------------------------
(* handleSyncToGitHub: the music dialog publishes the locally stored tracks *)

MaxLocal == 2

\* a data url `data:<mime>;base64,<data>`; the absent fileData is the empty string
FileData(mime, data) == [mime |-> mime, data |-> data]
NoFileData == FileData("", "")

LocalMusicItem(id, name, fileData, fileType) ==
    [id |-> id, name |-> name, fileData |-> fileData, fileType |-> fileType]

\* the items the local list is made of: two that convert, one without fileData and
\* one whose fileData is not base64
LocalMusicItems ==
    { LocalMusicItem("l1", "X", FileData("data:audio/mpeg;base64", "YzE="), "audio/mpeg"),
      LocalMusicItem("l2", "Y", NoFileData, ""),
      LocalMusicItem("l3", "Z", FileData("data:audio/wav;base64", "%%"), "audio/wav"),
      LocalMusicItem("l4", "W", FileData("data:audio/wav;base64", "YzI="), "audio/wav") }

LocalMusicLists ==
    { l \in SeqsUpTo(LocalMusicItems, MaxLocal) :
        \A i, j \in 1..Len(l) : i /= j => l[i].id /= l[j].id }

\* the GitHub list the dialog holds
SavedMusicLists == { <<>>, <<Track("A", OldUrl)>> }

\* atob: the bytes a base64 text stands for; it throws on any other text
atobThrows(data) == data \notin {"YzE=", "YzI="}
atob(data) ==
    CASE data = "YzE=" -> "c1"
      [] data = "YzI=" -> "c2"
      [] OTHER -> ""

\* fileType?.split('/')[1] || 'mp3'
fileTypeExt(fileType) ==
    CASE fileType = "audio/mpeg" -> "mpeg"
      [] fileType = "audio/wav" -> "wav"
      [] OTHER -> "mp3"

\* convertLocalMusicToFile: null (NoFile) without fileData or when atob throws, else
\* the File `${name}.${ext}` of the decoded bytes
convertLocalMusicToFile(localMusic) ==
    IF localMusic.fileData = NoFileData THEN NoFile
    ELSE IF atobThrows(localMusic.fileData.data) THEN NoFile
    ELSE File(localMusic.name, "." \o fileTypeExt(localMusic.fileType),
              atob(localMusic.fileData.data))

\* Date.now(): the clock readings of one sync, never decreasing
Nows == {"1", "2"}
NotBefore(now, last) == ~(now = "1" /\ last = "2")

\* `temp-${Date.now()}-${hash}`
tempUrl(now, hash) == Str("temp-", now \o "-" \o hash, "")

\* Map.prototype.set: a present key keeps its place and takes the new value
MapSet(map, url, item) ==
    IF \E k \in 1..Len(map) : map[k].url = url
    THEN [k \in 1..Len(map) |-> IF map[k].url = url THEN [url |-> url, item |-> item] ELSE map[k]]
    ELSE Append(map, [url |-> url, item |-> item])

\* localStorage's 'local-music-list': absent, or the stored list
Removed == <<>>
Stored(list) == <<list>>

IdleSync ==
    [ pc |-> "idle",
      isAuth |-> FALSE,
      localMusicList |-> <<>>,
      storage |-> Removed,
      savedMusicList |-> <<>>,
      isSyncing |-> FALSE,
      i |-> 1,
      now |-> "1",
      musicFileItems |-> <<>>,
      musicItemsToSync |-> <<>>,
      updatedList |-> <<>>,
      toasts |-> <<>> ]

\* the dialog is open with a local list, a GitHub list and a login state
OpenSync(isAuth, localMusicList, savedMusicList) ==
    [IdleSync EXCEPT !.isAuth = isAuth,
                     !.localMusicList = localMusicList,
                     !.storage = IF localMusicList = <<>> THEN Removed ELSE Stored(localMusicList),
                     !.savedMusicList = savedMusicList]

\* the loop over localMusicList is over: the list to publish is built
LoopEnd(me) ==
    IF me.i > Len(me.localMusicList)
    THEN [me EXCEPT !.pc = "pushMusic", !.updatedList = me.savedMusicList \o me.musicItemsToSync]
    ELSE me

\* lines 110-126: the two early returns, else setIsSyncing(true) and the empty locals
StartSync ==
    /\ sync.pc = "idle"
    /\ sync' = IF ~sync.isAuth
               THEN [sync EXCEPT !.pc = "returned"]
               ELSE IF Len(sync.localMusicList) = 0
               THEN [sync EXCEPT !.pc = "returned", !.toasts = Append(@, "nothing to sync")]
               ELSE [sync EXCEPT !.pc = "loop", !.isSyncing = TRUE, !.i = 1,
                                 !.musicFileItems = <<>>, !.musicItemsToSync = <<>>]
    /\ UNCHANGED <<ref, commits, trees, blobs, run>>

\* lines 128-145: one iteration of the loop over localMusicList
SyncItem ==
    /\ sync.pc = "loop"
    /\ sync.i <= Len(sync.localMusicList)
    /\ LET localMusic == sync.localMusicList[sync.i]
           file == convertLocalMusicToFile(localMusic)
           hash == hashFileSHA256(file)
       IN  IF localMusic.fileData /= NoFileData /\ file /= NoFile
           THEN \E now \in Nows :
                  /\ NotBefore(now, sync.now)
                  /\ sync' = LoopEnd([sync EXCEPT
                                !.i = @ + 1,
                                !.now = now,
                                !.musicFileItems =
                                    MapSet(@, tempUrl(now, hash), MusicFileItem(file, hash)),
                                !.musicItemsToSync =
                                    Append(@, Track(localMusic.name, tempUrl(now, hash)))])
           ELSE sync' = LoopEnd([sync EXCEPT !.i = @ + 1])
    /\ UNCHANGED <<ref, commits, trees, blobs, run>>

\* lines 151-154: pushMusic is called with the merged list and the pending uploads
\* (undefined, the empty map here, when there is none)
CallPushMusic ==
    /\ sync.pc = "pushMusic"
    /\ Begin(1, { [musicList |-> sync.updatedList,
                   musicFileItems |-> IF Len(sync.musicFileItems) > 0
                                      THEN sync.musicFileItems ELSE <<>>] })

\* lines 156-178: pushMusic returned, the local list and its storage key are cleared;
\* or it threw, and the catch toasts the error; finally setIsSyncing(false)
AfterPushMusic ==
    /\ sync.pc = "pushMusic"
    /\ \/ /\ run[1].pc = "done"
          /\ sync' = [sync EXCEPT !.pc = "returned",
                                  !.localMusicList = <<>>,
                                  !.storage = Removed,
                                  !.toasts = Append(@, "synced"),
                                  !.isSyncing = FALSE]
       \/ /\ run[1].pc = "failed"
          /\ sync' = [sync EXCEPT !.pc = "returned",
                                  !.toasts = Append(@, "sync failed"),
                                  !.isSyncing = FALSE]
    /\ UNCHANGED <<ref, commits, trees, blobs, run>>

----------------------------------------------------------------------------
(* Specifications *)

Init ==
    /\ \E manifest \in InitialManifests :
         /\ commits = <<[tree |-> InitialTree(manifest), parents |-> <<>>]>>
         /\ trees = {InitialTree(manifest)}
         /\ blobs = { f.sha : f \in InitialTree(manifest) }
    /\ ref = 1
    /\ run = [r \in Runners |-> IdleRun]
    /\ sync = IdleSync

Step(r) ==
    \/ GetAuthToken(r)
    \/ GetRef(r)
    \/ UploadItem(r)
    \/ ReadPrevious(r)
    \/ CreateManifestBlob(r)
    \/ CreateTree(r)
    \/ CreateCommit(r)
    \/ UpdateRef(r)

\* one publish
Next == Begin(1, PushMusicParams) \/ Step(1)

Spec == Init /\ [][Next]_vars

\* one publish whose pending uploads all have their track
NextCaller == Begin(1, CallerParams) \/ Step(1)

SpecCaller == Init /\ [][NextCaller]_vars

\* two publishes on the same branch
NextRace == \E r \in Runners : Begin(r, RaceParams) \/ Step(r)

SpecRace == Init /\ [][NextRace]_vars

\* the music dialog is open and the user presses the sync button
InitSync ==
    /\ \E manifest \in InitialManifests :
         /\ commits = <<[tree |-> InitialTree(manifest), parents |-> <<>>]>>
         /\ trees = {InitialTree(manifest)}
         /\ blobs = { f.sha : f \in InitialTree(manifest) }
    /\ ref = 1
    /\ run = [r \in Runners |-> IdleRun]
    /\ \E isAuth \in BOOLEAN, localMusicList \in LocalMusicLists,
          savedMusicList \in SavedMusicLists :
         sync = OpenSync(isAuth, localMusicList, savedMusicList)

NextSync == StartSync \/ SyncItem \/ CallPushMusic \/ Step(1) \/ AfterPushMusic

SpecSync == InitSync /\ [][NextSync]_vars

----------------------------------------------------------------------------
(* Vocabulary of the properties *)

Range(q) == { q[k] : k \in 1..Len(q) }

\* the calls a run has made, in order
CallsOf(r) == SelectSeq(run[r].log, LAMBDA e : e.kind = "call")

\* the positions of the log where `what` was called
CallsAt(r, what) == { k \in 1..Len(run[r].log) : run[r].log[k].kind = "call" /\ run[r].log[k].what = what }

\* the run has read the previous manifest and pushed its delete items
HasScanned(r) == CallsAt(r, "readTextFileFromRepo") /= {}

\* the run has left the loop over musicFileItems
HasUploaded(r) == \E k \in 1..Len(run[r].log) : run[r].log[k] = Toast("stale-file scan")

AddItems(items) == SelectSeq(items, LAMBDA t : t.sha /= NullSha /\ t.path /= ManifestPath)
DeleteItems(items) == SelectSeq(items, LAMBDA t : t.sha = NullSha)
ManifestItems(items) == SelectSeq(items, LAMBDA t : t.path = ManifestPath)

\* the file the tree holds at a path, as a set (empty when there is none)
FilesAt(tree, path) == { f \in tree : f.path = path }

\* the tree of the commit the run created
CommittedTree(r) == TreeOf(run[r].commitData)

NoPendingUploads(r) == run[r].musicFileItems = <<>>

----------------------------------------------------------------------------
(* C1 *)

\* C1: when pushMusic is called with no pending uploads and completes, the
\* manifest blob published at src/app/music/list.json is the serialization of
\* exactly the input list: same length, same order, every name and url unchanged.
C1_ManifestIsInputList ==
    \A r \in Runners :
        (run[r].pc = "done" /\ NoPendingUploads(r)) =>
            \E f \in CommittedTree(r) :
                /\ f.path = ManifestPath
                /\ FilesAt(CommittedTree(r), ManifestPath) = {f}
                /\ f.sha.form = "json"
                /\ Len(f.sha.items) = Len(run[r].musicList)
                /\ \A k \in 1..Len(run[r].musicList) :
                     f.sha.items[k] = <<"name", run[r].musicList[k].name,
                                        "url", run[r].musicList[k].url>>

C1_Witness ==
    \E r \in Runners :
        /\ run[r].pc = "done"
        /\ NoPendingUploads(r)
        /\ run[r].musicList = <<Track("B", ExternalUrl), Track("A", OldUrl)>>
        /\ ref = run[r].commitData

----------------------------------------------------------------------------
(* C2 *)

\* the pairs of pending uploads of a run whose files have the same bytes
SameContentPairs(r) ==
    { p \in (1..Len(run[r].musicFileItems)) \X (1..Len(run[r].musicFileItems)) :
        /\ p[1] < p[2]
        /\ run[r].musicFileItems[p[1]].item.file /= NoFile
        /\ run[r].musicFileItems[p[2]].item.file /= NoFile
        /\ run[r].musicFileItems[p[1]].item.file.content = run[r].musicFileItems[p[2]].item.file.content }

\* C2: within one pushMusic call, two pending uploads with identical byte content
\* give exactly one new audio blob and one add entry, and every track whose url
\* is either upload's transient key is remapped to the same canonical path
\* /music/<hash><ext>, whatever the files' names and extensions.
C2_SameContentSamePath ==
    \A r \in Runners :
        HasUploaded(r) =>
            \A p \in SameContentPairs(r) :
                LET a == run[r].musicFileItems[p[1]]
                    b == run[r].musicFileItems[p[2]]
                    bytes == Audio(a.item.file.content)
                    tracks == { k \in 1..Len(run[r].musicList) : run[r].musicList[k].url \in {a.url, b.url} }
                IN  /\ Len(SelectSeq(run[r].treeItems, LAMBDA t : t.sha = bytes)) = 1
                    /\ \A k, l \in tracks :
                         /\ run[r].updatedMusicList[k].url.pre = "/music/"
                         /\ run[r].updatedMusicList[k].url.stem = hashFileSHA256(a.item.file)
                         /\ run[r].updatedMusicList[k].url = run[r].updatedMusicList[l].url

----------------------------------------------------------------------------
(* C3 *)

\* the repository path of an owned url /music/X: public/music/X
OwnedPath(url) == Str("public/music/", url.stem, url.ext)

PreviousParses(r) == HasScanned(r) /\ JSONparses(run[r].previousListJson)

PreviousList(r) == JSONparse(run[r].previousListJson)

DeletedPaths(r) == { t.path : t \in Range(DeleteItems(run[r].treeItems)) }

\* C3: for every owned path /music/X of a previous manifest that parses, the tree
\* items hold a delete entry for public/music/X exactly when no track of the
\* post-remap list has url /music/X.
C3_DeleteIffUnreferenced ==
    \A r \in Runners :
        PreviousParses(r) =>
            \A k \in 1..Len(PreviousList(r)) :
                LET url == PreviousList(r)[k].url IN
                url.pre = "/music/" =>
                    ( OwnedPath(url) \in DeletedPaths(r)
                        <=> ~ \E m \in Range(run[r].updatedMusicList) : m.url = url )

\* a path the new list has only through a remapped upload is kept, another is deleted
C3_Witness ==
    \E r \in Runners :
        /\ PreviousParses(r)
        /\ run[r].pc = "done"
        /\ H1Mp3Url \in { m.url : m \in Range(PreviousList(r)) }
        /\ H1Mp3Url \notin { m.url : m \in Range(run[r].musicList) }
        /\ H1Mp3Url \in { m.url : m \in Range(run[r].updatedMusicList) }
        /\ OwnedPath(H1Mp3Url) \notin DeletedPaths(r)
        /\ OwnedPath(GoneUrl) \in DeletedPaths(r)

----------------------------------------------------------------------------
(* C4 *)

\* C4: no delete entry targets a path derived from a previous-manifest url that
\* does not start with /music/: every delete entry is public/music/X for an owned
\* url /music/X of the previous manifest, whether or not the external urls
\* reappear in the new list.
C4_ExternalNeverDeleted ==
    \A r \in Runners :
        /\ DeletedPaths(r) /= {} => PreviousParses(r)
        /\ PreviousParses(r) =>
             /\ \A d \in DeletedPaths(r) :
                  /\ d.pre = "public/music/"
                  /\ Str("/music/", d.stem, d.ext) \in { m.url : m \in Range(PreviousList(r)) }
             /\ \A m \in Range(PreviousList(r)) :
                  m.url.pre /= "/music/" =>
                      /\ StoragePath(ReplaceMusic(m.url)) \notin DeletedPaths(r)
                      /\ StoragePath(Str("", m.url.pre \o m.url.stem, m.url.ext)) \notin DeletedPaths(r)

\* the previous manifest's external url is gone from the new list and only the
\* owned one is deleted
C4_Witness ==
    \E r \in Runners :
        /\ PreviousParses(r)
        /\ run[r].pc = "done"
        /\ ExternalUrl \in { m.url : m \in Range(PreviousList(r)) }
        /\ ExternalUrl \notin { m.url : m \in Range(run[r].updatedMusicList) }
        /\ DeletedPaths(r) = {OwnedPath(OldUrl)}

----------------------------------------------------------------------------
(* C5 *)

PreviousUnusable(r) ==
    /\ HasScanned(r)
    /\ \/ run[r].previousListJson = NotFound
       \/ ~JSONparses(run[r].previousListJson)

\* C5: when the previous manifest is absent or does not parse, pushMusic does not
\* abort there and pushes no delete entry: it goes on to the manifest blob, the
\* tree, the commit and the ref update.
C5_UnusablePreviousIsNotFatal ==
    \A r \in Runners :
        PreviousUnusable(r) =>
            /\ DeletedPaths(r) = {}
            /\ run[r].error.step \notin {"JSON.parse", "readTextFileFromRepo"}
            /\ run[r].pc \in {"createManifestBlob", "createTree", "createCommit", "updateRef", "done", "failed"}
            /\ run[r].pc = "failed" =>
                 run[r].error.step \in {"createBlob", "createTree", "createCommit", "updateRef"}

\* a publish over a manifest that does not parse completes
C5_Witness ==
    \E r \in Runners :
        /\ run[r].previousListJson = GarbageText
        /\ run[r].pc = "done"
        /\ ref = run[r].commitData
        /\ CallsOf(r)[Len(CallsOf(r))] = Call("updateRef", TRUE)
        /\ run[r].musicList /= <<>>

----------------------------------------------------------------------------
(* C6 *)

\* the one position of the log where `what` was called
TheCall(r, what) == CHOOSE k \in CallsAt(r, what) : TRUE

\* C6: a successful pushMusic makes exactly one createTree, then one createCommit,
\* then one updateRef, after every createBlob; the tree request is based on the
\* tip read by getRef and carries every accumulated add and delete item and
\* exactly one manifest item; the commit points at that tree with that tip as its
\* only parent; the ref is moved to that commit.
C6_OneTreeCommitRef ==
    \A r \in Runners :
        run[r].pc = "done" =>
            /\ Cardinality(CallsAt(r, "createTree")) = 1
            /\ Cardinality(CallsAt(r, "createCommit")) = 1
            /\ Cardinality(CallsAt(r, "updateRef")) = 1
            /\ \A b \in CallsAt(r, "createBlob") : b < TheCall(r, "createTree")
            /\ TheCall(r, "createTree") < TheCall(r, "createCommit")
            /\ TheCall(r, "createCommit") < TheCall(r, "updateRef")
            /\ run[r].latestCommitSha \in 1..Len(commits)
            /\ commits[run[r].latestCommitSha].parents = <<>>
            /\ run[r].sentTree.base = run[r].latestCommitSha
            /\ run[r].sentTree.tree = run[r].treeItems
            /\ Len(ManifestItems(run[r].sentTree.tree)) = 1
            /\ Len(AddItems(run[r].sentTree.tree)) = Cardinality(CallsAt(r, "createBlob")) - 1
            /\ Len(run[r].sentTree.tree)
                 = Len(AddItems(run[r].treeItems)) + Len(DeleteItems(run[r].treeItems)) + 1
            /\ \A f \in TreeOf(run[r].latestCommitSha) :
                 f.path \notin { t.path : t \in Range(run[r].treeItems) } => f \in run[r].treeData
            /\ run[r].sentCommit.tree = run[r].treeData
            /\ run[r].sentCommit.parents = <<run[r].latestCommitSha>>
            /\ commits[run[r].commitData] = run[r].sentCommit
            /\ run[r].sentRef = run[r].commitData
            /\ ref = run[r].commitData

\* a publish with an add, a delete and the manifest in its one tree request
C6_Witness ==
    \E r \in Runners :
        /\ run[r].pc = "done"
        /\ Len(AddItems(run[r].sentTree.tree)) = 1
        /\ Len(DeleteItems(run[r].sentTree.tree)) = 1
        /\ Len(run[r].sentTree.tree) = 3
        /\ ref = run[r].commitData

----------------------------------------------------------------------------
(* C7 *)

\* C7: when the remote rejects the final ref update, pushMusic ends with
\* RefUpdateConflict and nothing runs after it: the rejected call is the last
\* entry of the log, no completion toast is emitted and the ref is not moved.
C7_RejectedRefUpdateEnds ==
    \A r \in Runners :
        \A k \in CallsAt(r, "updateRef") :
            ~run[r].log[k].ok =>
                /\ k = Len(run[r].log)
                /\ run[r].pc = "failed"
                /\ run[r].error = Error("RefUpdateConflict", "updateRef")
                /\ Toast("completion") \notin Range(run[r].log)
                /\ ref /= run[r].commitData
                /\ ~ENABLED Step(r)

C7_Witness ==
    \E r \in Runners :
        /\ run[r].pc = "failed"
        /\ run[r].error.name = "RefUpdateConflict"
        /\ run[r].commitData \in 1..Len(commits)
        /\ run[r].log[Len(run[r].log)] = Call("updateRef", FALSE)

----------------------------------------------------------------------------
(* C8 *)

\* the error each failing step ends the publish with
ErrorOf(step) ==
    CASE step = "getAuthToken" -> "Unauthenticated"
      [] step = "getRef" -> "RefNotFound"
      [] step = "updateRef" -> "RefUpdateConflict"
      [] OTHER -> "RemoteWriteFailed"

FailedCalls(r) == { k \in 1..Len(run[r].log) : run[r].log[k].kind = "call" /\ ~run[r].log[k].ok }

\* C8: the first failing step aborts the publish: the failed call is the last
\* entry of the log (no later call, no repetition), the run has ended with that
\* step's error, and a missing auth token aborts before any remote call.
C8_FirstFailureAborts ==
    \A r \in Runners :
        /\ \A k \in FailedCalls(r) :
             /\ k = Len(run[r].log)
             /\ run[r].pc = "failed"
             /\ run[r].error = Error(ErrorOf(run[r].log[k].what), run[r].log[k].what)
             /\ run[r].log[k].what \in
                  {"getAuthToken", "getRef", "createBlob", "createTree", "createCommit", "updateRef"}
        /\ run[r].pc = "failed" =>
             /\ Cardinality(FailedCalls(r)) = 1
             /\ ~ENABLED Step(r)
        /\ run[r].error.name = "Unauthenticated" =>
             /\ run[r].log = <<Call("getAuthToken", FALSE)>>
             /\ run[r].latestCommitSha = 0
        /\ run[r].pc = "done" => FailedCalls(r) = {}

\* a publish that fails at createTree after its blobs were created
C8_Witness ==
    \E r \in Runners :
        /\ run[r].pc = "failed"
        /\ run[r].error = Error("RemoteWriteFailed", "createTree")
        /\ Cardinality(CallsAt(r, "createBlob")) = 2
        /\ CallsAt(r, "createCommit") = {}

----------------------------------------------------------------------------
(* C9 *)

\* runs r and s read the same branch tip and have both asked for the ref update
RacedOn(r, s) ==
    /\ r /= s
    /\ run[r].latestCommitSha /= 0
    /\ run[r].latestCommitSha = run[s].latestCommitSha
    /\ CallsAt(r, "updateRef") /= {}
    /\ CallsAt(s, "updateRef") /= {}

\* of two runs that read the same tip at most one moves the ref; the other one is
\* rejected with RefUpdateConflict, once, and the ref stays at the winner's commit
RaceHasOneWinner ==
    \A r, s \in Runners :
        (RacedOn(r, s) /\ run[r].pc = "done") =>
            /\ run[s].pc = "failed"
            /\ run[s].error = Error("RefUpdateConflict", "updateRef")
            /\ Cardinality(CallsAt(s, "updateRef")) = 1
            /\ run[s].log[Len(run[s].log)] = Call("updateRef", FALSE)
            /\ ref = run[r].commitData
            /\ ref /= run[s].commitData

\* the ref only ever moves to a commit whose one parent is the tip it replaces
RefMovesToChild ==
    ref' /= ref => commits'[ref'].parents = <<ref>>

\* C9: when two pushMusic runs read the same branch tip before either moves the
\* ref, the run whose ref update comes second is rejected with RefUpdateConflict
\* and not retried; the ref points at the first run's commit and never at a commit
\* whose parent is not the tip it replaced.
C9_SecondWriterRejected == []RaceHasOneWinner /\ [][RefMovesToChild]_vars

\* both runs built a commit on the same tip; one moved the ref, the other was rejected
C9_Witness ==
    \E r, s \in Runners :
        /\ RacedOn(r, s)
        /\ run[r].pc = "done"
        /\ run[s].pc = "failed"
        /\ run[s].error.name = "RefUpdateConflict"
        /\ commits[run[s].commitData].parents = <<run[r].latestCommitSha>>
        /\ commits[run[r].commitData].parents = <<run[r].latestCommitSha>>
        /\ run[r].commitData < run[s].commitData
        /\ ref = run[r].commitData

----------------------------------------------------------------------------
(* C10 *)

\* the pending upload a url is the key of, as a set
UploadsAt(r, url) ==
    { e \in Range(run[r].musicFileItems) : e.url = url /\ e.item.file /= NoFile }

\* the canonical public path of a pending upload: /music/<hash><ext>
CanonicalPath(e) == Str("/music/", hashOf(e.item), getFileExt(e.item.file.name))

\* the list passed in, with the uploaded tracks' urls rewritten
ExpectedList(r) ==
    [k \in 1..Len(run[r].musicList) |->
        IF UploadsAt(r, run[r].musicList[k].url) = {} THEN run[r].musicList[k]
        ELSE [run[r].musicList[k] EXCEPT
                 !.url = CanonicalPath(CHOOSE e \in UploadsAt(r, run[r].musicList[k].url) : TRUE)]]

OwnedUrlsIn(list) == { m.url : m \in { x \in Range(list) : x.url.pre = "/music/" } }

PreviousOwned(r) == IF PreviousParses(r) THEN OwnedUrlsIn(PreviousList(r)) ELSE {}

AudioPaths(tree) == { f.path : f \in { x \in tree : x.path.pre = "public/music/" } }

\* C10: after a successful pushMusic the manifest lists exactly the tracks passed
\* in, uploaded tracks rewritten to their canonical paths; the audio blobs under
\* public/music are exactly the previously referenced ones still referenced plus
\* the ones uploaded in this call; a blob only the previous manifest referenced is
\* removed; every owned path the manifest gained through an upload is in the tree.
C10_PublishedStateIsConsistent ==
    \A r \in Runners :
        run[r].pc = "done" =>
            LET tree == CommittedTree(r)
                new == OwnedUrlsIn(ExpectedList(r))
                uploaded == { t.path : t \in Range(AddItems(run[r].treeItems)) }
            IN  /\ FilesAt(tree, ManifestPath) = {TreeFile(ManifestPath, JSONstringify(ExpectedList(r)))}
                /\ AudioPaths(tree)
                     = { OwnedPath(u) : u \in PreviousOwned(r) \cap new } \cup uploaded
                /\ \A u \in PreviousOwned(r) \ new : OwnedPath(u) \notin AudioPaths(tree)
                /\ \A k \in 1..Len(run[r].musicList) :
                     UploadsAt(r, run[r].musicList[k].url) /= {} =>
                         OwnedPath(ExpectedList(r)[k].url) \in AudioPaths(tree)

----------------------------------------------------------------------------
(* C11 *)

\* the toasts a run has emitted, in order
ToastsOf(r) == SelectSeq(run[r].log, LAMBDA e : e.kind = "toast")

\* the eight notifications, in the order of the steps
AllToasts ==
    << Toast("ref fetch"), Toast("file prep"), Toast("upload"), Toast("stale-file scan"),
       Toast("tree creation"), Toast("commit creation"), Toast("ref update"), Toast("completion") >>

\* the notifications without the one of the upload step
ToastsWithoutUpload == SelectSeq(AllToasts, LAMBDA t : t /= Toast("upload"))

IsPrefix(p, q) == Len(p) <= Len(q) /\ \A k \in 1..Len(p) : p[k] = q[k]

\* the toast of the step a call at position k of the log belongs to: a
\* createBlob before the previous manifest is read uploads a file, a later one
\* creates the manifest blob
ToastBefore(r, k) ==
    LET what == run[r].log[k].what IN
    CASE what = "getRef" -> Toast("ref fetch")
      [] what = "createBlob" ->
           IF \E j \in CallsAt(r, "readTextFileFromRepo") : j < k
           THEN Toast("stale-file scan") ELSE Toast("upload")
      [] what = "readTextFileFromRepo" -> Toast("stale-file scan")
      [] what = "createTree" -> Toast("tree creation")
      [] what = "createCommit" -> Toast("commit creation")
      [] what = "updateRef" -> Toast("ref update")
      [] OTHER -> Toast("")

\* the place of a toast in the order of the steps
RankOf(toast) ==
    CASE toast.what = "ref fetch" -> 1
      [] toast.what = "file prep" -> 2
      [] toast.what = "upload" -> 3
      [] toast.what = "stale-file scan" -> 4
      [] toast.what = "tree creation" -> 5
      [] toast.what = "commit creation" -> 6
      [] toast.what = "ref update" -> 7
      [] toast.what = "completion" -> 8
      [] OTHER -> 0

\* every remote call at a position of the log comes after its step's toast and
\* before the toasts of the later steps
CallsFollowToasts(r) ==
    LET log == run[r].log IN
    \A k \in 1..Len(log) :
        (log[k].kind = "call" /\ log[k].what /= "getAuthToken") =>
            LET mine == ToastBefore(r, k) IN
            /\ \E j \in 1..(k - 1) : log[j] = mine
            /\ \A j \in 1..(k - 1) : log[j].kind = "toast" => RankOf(log[j]) <= RankOf(mine)

\* C11 as stated: in every run each step's toast precedes the step's remote call
\* and the next step, and a successful run emits ref fetch, file prep, upload,
\* stale-file scan, tree creation, commit creation, ref update, completion, for
\* every input, a run with no pending uploads included.
C11_AllEightToasts ==
    \A r \in Runners :
        /\ CallsFollowToasts(r)
        /\ IsPrefix(ToastsOf(r), AllToasts)
        /\ run[r].pc = "done" => ToastsOf(r) = AllToasts

\* C11 amended: the upload toast is emitted exactly by the runs that have pending
\* uploads (a non-empty musicFileItems); the other toasts are emitted by every
\* run, in the stated order, each before its step's remote call.
C11_ToastsInOrder ==
    \A r \in Runners :
        LET expected == IF NoPendingUploads(r) THEN ToastsWithoutUpload ELSE AllToasts IN
        /\ CallsFollowToasts(r)
        /\ IsPrefix(ToastsOf(r), expected)
        /\ run[r].pc = "done" => ToastsOf(r) = expected

\* a completed run without pending uploads: seven toasts, no upload toast
C11_Witness ==
    \E r \in Runners :
        /\ run[r].pc = "done"
        /\ NoPendingUploads(r)
        /\ run[r].musicList /= <<>>
        /\ ToastsOf(r) = ToastsWithoutUpload
        /\ Len(ToastsOf(r)) = Len(AllToasts) - 1

----------------------------------------------------------------------------
(* C12 *)

\* C12: in every tree request no path is named by an add item (non-null sha) and
\* by a delete item (null sha), and no path is named by two items, whatever the
\* previous manifest, the desired list and the pending uploads are.
C12_NoPathTwice ==
    \A r \in Runners :
        LET sent == run[r].sentTree.tree IN
        \A k, l \in 1..Len(sent) : k /= l => sent[k].path /= sent[l].path

----------------------------------------------------------------------------
(* C13 *)

\* the calls of a kind that a run has made and that succeeded
Succeeded(r, what) == { k \in CallsAt(r, what) : run[r].log[k].ok }

\* a failed run has left the ref at the tip it read, and the commit it may have
\* created is not reachable from the branch
FailedRunLeftRef ==
    \A r \in Runners :
        run[r].pc = "failed" =>
            /\ run[r].latestCommitSha /= 0 => ref = run[r].latestCommitSha
            /\ commits[ref].parents = <<>>
            /\ TreeOf(ref) \in { InitialTree(m) : m \in InitialManifests }
            /\ run[r].commitData /= 0 => ~IsAncestor(run[r].commitData, ref)

\* the ref is moved only by the updateRef of a run none of whose calls failed,
\* after its blobs, its tree and its commit were created
RefMovedByCompleteRun ==
    ref' /= ref =>
        \E r \in Runners :
            /\ run[r].pc = "updateRef"
            /\ run'[r].pc = "done"
            /\ ref' = run[r].commitData
            /\ FailedCalls(r) = {}
            /\ Cardinality(Succeeded(r, "createBlob")) = Cardinality(run[r].uploadedHashes) + 1
            /\ Cardinality(Succeeded(r, "createTree")) = 1
            /\ Cardinality(Succeeded(r, "createCommit")) = 1

\* C13: a pushMusic run that fails at any step leaves the branch ref where it was
\* when the run read it: the ref is changed only by the final updateRef, reached
\* only after every blob, the tree and the commit were created; what the failed
\* run created stays unreachable from the branch.
C13_FailedRunLeavesRef == []FailedRunLeftRef /\ [][RefMovedByCompleteRun]_vars

\* a run that created its blobs, tree and commit and was then refused the ref update
C13_Witness ==
    \E r \in Runners :
        /\ run[r].pc = "failed"
        /\ run[r].error.step = "updateRef"
        /\ Succeeded(r, "createCommit") /= {}
        /\ run[r].commitData \in 1..Len(commits)
        /\ ref = run[r].latestCommitSha
        /\ ref /= run[r].commitData

-----------------------------------------------------------------------------
(* C14 *)

\* the local music list or its storage key changes in this step
LocalListChanges ==
    sync'.localMusicList /= sync.localMusicList \/ sync'.storage /= sync.storage

\* the local items this step removes from the list
RemovedLocalItems == Range(sync.localMusicList) \ Range(sync'.localMusicList)

\* the list pushMusic was called with has a track for the local item
WasPublished(localMusic) ==
    \E k \in 1..Len(run[1].musicList) :
        /\ run[1].musicList[k].name = localMusic.name
        /\ run[1].musicList[k].url.pre = "temp-"

ClearedAfterSuccess ==
    LocalListChanges =>
        /\ run[1].pc = "done"
        /\ \A localMusic \in RemovedLocalItems : WasPublished(localMusic)

KeptAfterFailure == run[1].pc = "failed" => ~LocalListChanges

\* C14: the dialog's sync clears the local music list only after pushMusic has
\* succeeded, every local item the clearing removes was in the list published, and
\* after a failed pushMusic the local list is unchanged.
C14_ClearedItemsWerePublished == [][ClearedAfterSuccess /\ KeptAfterFailure]_vars

====
